---- MODULE Spec2Model ----
(***************************************************************************)
(* Model of src/art.c (ARTinC): node creation, tree initialisation and the *)
(* per-class child lookup of an Adaptive Radix Tree.                       *)
(*                                                                         *)
(* Bytes are kept as their 8-bit patterns 0..255.  `char' is signed or     *)
(* unsigned depending on the build (charSigned); every place where the C   *)
(* code promotes a char to int goes through charToInt.  Objects live in a  *)
(* heap indexed by address; NULL is address 0.  Child pointers are opaque  *)
(* tokens (ChildPtr), compared only with each other and with NULL.         *)
(***************************************************************************)
EXTENDS Integers, Sequences, FiniteSets, TLC

VARIABLES
    charSigned,   \* build: plain char is a signed type
    sse2,         \* build: __SSE2__ is defined
    heap,         \* the allocated objects; the object at address a is heap[a]
    node,         \* address of the node handed to the lookups, or NULL
    tree,         \* address returned by the last initializeAdaptiveRadixTree, or NULL
    allocFailed,  \* an allocation of the call that has just returned failed
    op,           \* the function that has just returned, "none" between calls
    byte,         \* the key byte passed to the last lookup
    ret,          \* the pointer returned by the last lookup
    idx           \* <<i>> when the last lookup indexed a 256-entry array with i, else <<>>

vars == <<charSigned, sse2, heap, node, tree, allocFailed, op, byte, ret, idx>>

(***************************************************************************)
(* Constants and types of the program                                      *)
(***************************************************************************)
MAX_PREFIX_LENGTH == 32
EMPTY_KEY == 255

NODE4 == "NODE4"
NODE16 == "NODE16"
NODE48 == "NODE48"
NODE256 == "NODE256"
LEAF == "LEAF"

NULL == 0
\* a pointer value read from outside any children array
WILD == 999
Bytes == 0 .. 255

\* conversion of a char holding bit pattern b to int
charToInt(b) == IF charSigned /\ b >= 128 THEN b - 256 ELSE b

\* calloc(1, sizeof(Node4)): every field zero
CallocNode4 ==
    [type |-> NODE4,
     prefix |-> [i \in 0 .. MAX_PREFIX_LENGTH - 1 |-> 0],
     prefixLen |-> 0,
     keys |-> [i \in 0 .. 3 |-> 0],
     children |-> [i \in 0 .. 3 |-> NULL],
     count |-> 0]

\* a successful allocation: the heap with obj at a fresh address, and that address
Alloc(h, obj) == [heap |-> Append(h, obj), addr |-> Len(h) + 1]

\* createRootNode on heap h: the heap afterwards and the pointer returned
createRootNode(h, callocOk) ==
    IF ~callocOk THEN [heap |-> h, addr |-> NULL]
    ELSE Alloc(h, [CallocNode4 EXCEPT !.type = NODE4,
                                      !.prefixLen = 0,
                                      !.keys = [i \in 0 .. 3 |-> EMPTY_KEY]])

\* initializeAdaptiveRadixTree on heap h: the heap afterwards and the pointer returned
initializeAdaptiveRadixTree(h, mallocOk, callocOk) ==
    IF ~mallocOk THEN [heap |-> h, addr |-> NULL]
    ELSE LET t == Alloc(h, [root |-> NULL, size |-> 0])
             r == createRootNode(t.heap, callocOk)
         IN  [heap |-> [r.heap EXCEPT ![t.addr] = [root |-> r.addr, size |-> 0]],
              addr |-> t.addr]

(***************************************************************************)
(* Child lookup                                                            *)
(***************************************************************************)
RECURSIVE Pow2(_)
Pow2(n) == IF n = 0 THEN 1 ELSE 2 * Pow2(n - 1)

\* bitwise AND of two non-negative integers
RECURSIVE BitAnd(_, _)
BitAnd(a, b) ==
    IF a = 0 \/ b = 0 THEN 0
    ELSE (a % 2) * (b % 2) + 2 * BitAnd(a \div 2, b \div 2)

\* __builtin_ctz: number of trailing zero bits of x # 0
RECURSIVE Ctz(_)
Ctz(x) == IF x % 2 = 1 THEN 0 ELSE 1 + Ctz(x \div 2)

\* _mm_movemask_epi8(_mm_cmpeq_epi8(key, keys)): bit i is set iff keys[i] has
\* the bit pattern of byte
RECURSIVE MoveMaskCmpEq(_, _, _)
MoveMaskCmpEq(keys, b, i) ==
    IF i > 15 THEN 0
    ELSE (IF keys[i] = b THEN Pow2(i) ELSE 0) + MoveMaskCmpEq(keys, b, i + 1)

\* the low sixteen bits of what 1 << -1 may evaluate to (undefined behaviour):
\* none set (as in the x86 shl result 0x80000000, shift count taken modulo 32)
\* or all set
ShiftUB == {0, Pow2(16) - 1}

\* a mask that keeps every comparison bit, occupied slot or not
ShiftMaskKeepsAll(n, shl) == Pow2(16) - 1

\* 1 << (node->count - 1)
ShiftMask(n, shl) == IF n.count - 1 >= 0 THEN Pow2(n.count - 1) ELSE shl

\* findChildSSE; shl resolves the undefined shift when count = 0
findChildSSE(n, b, shl) ==
    LET mask == ShiftMask(n, shl)
        bitfield == BitAnd(MoveMaskCmpEq(n.keys, b, 0), mask)
    IN  IF bitfield # 0
        THEN n.children[Ctz(bitfield)]
        ELSE NULL

RECURSIVE BinarySearch(_, _, _, _)
BinarySearch(n, b, low, high) ==
    IF low <= high
    THEN LET mid == low + (high - low) \div 2
             midByte == charToInt(n.keys[mid])
         IN  IF midByte < charToInt(b) THEN BinarySearch(n, b, mid + 1, high)
             ELSE IF midByte > charToInt(b) THEN BinarySearch(n, b, low, mid - 1)
             ELSE n.children[mid]
    ELSE NULL

findChildBinary(n, b) == BinarySearch(n, b, 0, n.count - 1)

\* the NODE4 loop run over all four slots instead of the first count
RECURSIVE LinearScanAllSlots(_, _, _)
LinearScanAllSlots(n, b, i) ==
    IF i < 4
    THEN IF n.keys[i] = b THEN n.children[i] ELSE LinearScanAllSlots(n, b, i + 1)
    ELSE NULL

\* the for loop of the NODE4 branch, from slot i on
RECURSIVE LinearScan(_, _, _)
LinearScan(n, b, i) ==
    IF i < n.count
    THEN IF n.keys[i] = b THEN n.children[i] ELSE LinearScan(n, b, i + 1)
    ELSE NULL

\* the subscript of node48->keys[byte] and node256->children[byte]
ByteIndex(b) == charToInt(b)

\* node48->keys[byte]; oobByte is what a read outside the table yields
Node48ChildIndex(n, b, oobByte) ==
    IF ByteIndex(b) \in 0 .. 255 THEN n.keys[ByteIndex(b)] ELSE oobByte

\* findChild; ub resolves the reads and the shift the C standard leaves undefined
findChild(n, b, ub) ==
    IF n.type = NODE4 THEN LinearScan(n, b, 0)
    ELSE IF n.type = NODE16
    THEN IF sse2 THEN findChildSSE(n, b, ub.shl) ELSE findChildBinary(n, b)
    ELSE IF n.type = NODE48
    THEN LET childIndex == Node48ChildIndex(n, b, ub.oobByte)
         IN  IF childIndex # EMPTY_KEY
             THEN IF childIndex \in 0 .. 47 THEN n.children[childIndex] ELSE ub.oobPtr
             ELSE NULL
    ELSE IF n.type = NODE256
    THEN IF ByteIndex(b) \in 0 .. 255 THEN n.children[ByteIndex(b)] ELSE ub.oobPtr
    ELSE NULL

\* the index findChild computes from the byte, when it computes one
findChildIndex(n, b) ==
    IF n.type \in {NODE48, NODE256} THEN <<ByteIndex(b)>> ELSE <<>>

(***************************************************************************)
(* Nodes handed to the lookups.  The source has no insertion, so the nodes *)
(* are enumerated: slot i of a node with `count' occupied slots holds the  *)
(* key byte base + i * stride and the pointer ChildPtr(i); the slots past  *)
(* count are either never used (sentinel key, NULL child) or stale (they   *)
(* still hold a key byte and a child pointer of a removed entry).          *)
(***************************************************************************)
BaseSample == {0, 120, 240}
StrideSample == {1, 17}
Counts48 == {0, 1, 17, 48}
Counts256 == {0, 1, 49, 256}

KeyAt(base, stride, i) == base + i * stride

\* the pointer stored in slot i of a children array
ChildPtr(i) == 1000 + i

ZeroPrefix == [i \in 0 .. MAX_PREFIX_LENGTH - 1 |-> 0]

\* a Node4 (cap = 4) or Node16 (cap = 16); Node4 keys are unordered, so the
\* occupied slots may also run in descending order
SmallNode(t, cap, count, base, stride, desc, stale) ==
    [type |-> t,
     prefix |-> ZeroPrefix,
     prefixLen |-> 0,
     keys |-> [i \in 0 .. cap - 1 |->
                 IF i < count
                 THEN KeyAt(base, stride, IF desc THEN count - 1 - i ELSE i)
                 ELSE IF stale THEN KeyAt(base, stride, i) ELSE EMPTY_KEY],
     children |-> [i \in 0 .. cap - 1 |->
                 IF i < count \/ stale THEN ChildPtr(i) ELSE NULL],
     count |-> count]

Node4Inputs ==
    { SmallNode(NODE4, 4, c, p[1], p[2], p[3], p[4]) :
        c \in 0 .. 4,
        p \in { q \in BaseSample \X StrideSample \X BOOLEAN \X BOOLEAN :
                  KeyAt(q[1], q[2], 3) <= 255 } }

Node16Inputs ==
    { SmallNode(NODE16, 16, c, p[1], p[2], FALSE, p[3]) :
        c \in 0 .. 16,
        p \in { q \in BaseSample \X StrideSample \X BOOLEAN :
                  KeyAt(q[1], q[2], 15) <= 255 } }

\* a Node48: byte-to-slot table and compact children array
Node48Input(count, base, stride, stale) ==
    [type |-> NODE48,
     prefix |-> ZeroPrefix,
     prefixLen |-> 0,
     keys |-> [b \in 0 .. 255 |->
                 IF \E i \in 0 .. count - 1 : KeyAt(base, stride, i) = b
                 THEN (b - base) \div stride
                 ELSE EMPTY_KEY],
     children |-> [i \in 0 .. 47 |->
                 IF i < count \/ stale THEN ChildPtr(i) ELSE NULL]]

Node48Inputs ==
    { Node48Input(c, p[1], p[2], p[3]) :
        c \in Counts48,
        p \in { q \in BaseSample \X StrideSample \X BOOLEAN :
                  KeyAt(q[1], q[2], 47) <= 255 } }

\* a Node256: children indexed by byte value
Node256Input(count, base, stride) ==
    [type |-> NODE256,
     prefix |-> ZeroPrefix,
     prefixLen |-> 0,
     children |-> [b \in 0 .. 255 |->
                 IF \E i \in 0 .. count - 1 : KeyAt(base, stride, i) = b
                 THEN ChildPtr(b)
                 ELSE NULL]]

Node256Inputs ==
    { Node256Input(p[1], p[2], p[3]) :
        p \in { q \in Counts256 \X BaseSample \X StrideSample :
                  q[1] = 0 \/ KeyAt(q[2], q[3], q[1] - 1) <= 255 } }

LeafInputs == { [type |-> LEAF, key |-> <<k>>, value |-> 1] : k \in BaseSample }

InputNodes ==
    Node4Inputs \cup Node16Inputs \cup Node48Inputs \cup Node256Inputs \cup LeafInputs

(***************************************************************************)
(* Outcomes of the operations the C standard leaves undefined              *)
(***************************************************************************)
\* a byte read before the start of node48->keys
OOBBytes == {0, 47, 48, EMPTY_KEY}
\* a pointer read outside node48->children or node256->children
OOBPtrs == {NULL, WILD}

\* the outcomes that matter to findChild(n, b); one fixed record otherwise
UBOutcomes(n, b) ==
    [shl : IF n.type = NODE16 /\ n.count = 0 THEN ShiftUB ELSE {0},
     oobByte : IF n.type = NODE48 /\ ByteIndex(b) < 0 THEN OOBBytes ELSE {0},
     oobPtr : IF n.type \in {NODE48, NODE256} /\ ByteIndex(b) < 0
              THEN OOBPtrs ELSE {NULL}]

(***************************************************************************)
(* State machine                                                           *)
(***************************************************************************)
\* trees a behaviour may create
MaxTrees == 1

IsTree(obj) == "root" \in DOMAIN obj

NumTrees == Cardinality({a \in DOMAIN heap : IsTree(heap[a])})

Init ==
    /\ charSigned \in BOOLEAN
    /\ sse2 \in BOOLEAN
    /\ \E n \in InputNodes : heap = <<n>>
    /\ node = 1
    /\ tree = NULL
    /\ allocFailed = FALSE
    /\ op = "none"
    /\ byte = 0
    /\ ret = NULL
    /\ idx = <<>>

\* a caller creates a tree; from then on the lookups are handed its root
InitializeAdaptiveRadixTree ==
    /\ op = "none"
    /\ NumTrees < MaxTrees
    /\ \E mallocOk \in BOOLEAN, callocOk \in BOOLEAN :
         LET r == initializeAdaptiveRadixTree(heap, mallocOk, callocOk)
         IN  /\ heap' = r.heap
             /\ tree' = r.addr
             /\ node' = IF r.addr = NULL THEN node ELSE r.heap[r.addr].root
             \* calloc is reached only when malloc has succeeded
             /\ allocFailed' = (~mallocOk \/ ~callocOk)
    /\ op' = "initializeAdaptiveRadixTree"
    /\ UNCHANGED <<charSigned, sse2, byte, ret, idx>>

\* the NODE4 comparison written as an assignment, keys[0] = byte
NodeAfterFindChildAssigning(n, b) ==
    IF n.type = NODE4 /\ n.count > 0 THEN [n EXCEPT !.keys[0] = b] ELSE n

\* the node after findChild(node, b) has run: the lookup writes nothing
NodeAfterFindChild(n, b) == n

FindChild ==
    /\ op = "none"
    /\ node # NULL
    /\ \E b \in Bytes :
         /\ byte' = b
         /\ \E ub \in UBOutcomes(heap[node], b) : ret' = findChild(heap[node], b, ub)
         /\ idx' = findChildIndex(heap[node], b)
         /\ heap' = [heap EXCEPT ![node] = NodeAfterFindChild(heap[node], b)]
    /\ op' = "findChild"
    /\ UNCHANGED <<charSigned, sse2, node, tree, allocFailed>>

FindChildBinary ==
    /\ op = "none"
    /\ node # NULL
    /\ heap[node].type = NODE16
    /\ \E b \in Bytes :
         /\ byte' = b
         /\ ret' = findChildBinary(heap[node], b)
    /\ op' = "findChildBinary"
    /\ idx' = <<>>
    /\ UNCHANGED <<charSigned, sse2, heap, node, tree, allocFailed>>

\* findChildSSE exists only in builds that define __SSE2__
FindChildSSE ==
    /\ op = "none"
    /\ sse2
    /\ node # NULL
    /\ heap[node].type = NODE16
    /\ \E b \in Bytes :
         /\ byte' = b
         /\ \E ub \in UBOutcomes(heap[node], b) :
              ret' = findChildSSE(heap[node], b, ub.shl)
    /\ op' = "findChildSSE"
    /\ idx' = <<>>
    /\ UNCHANGED <<charSigned, sse2, heap, node, tree, allocFailed>>

\* the caller has consumed the result
Return ==
    /\ op # "none"
    /\ op' = "none"
    /\ byte' = 0
    /\ ret' = NULL
    /\ idx' = <<>>
    /\ allocFailed' = FALSE
    /\ UNCHANGED <<charSigned, sse2, heap, node, tree>>

Next ==
    \/ InitializeAdaptiveRadixTree
    \/ FindChild
    \/ FindChildBinary
    \/ FindChildSSE
    \/ Return

Spec == Init /\ [][Next]_vars

(***************************************************************************)
(* Vocabulary of the properties                                            *)
(***************************************************************************)
Cur == heap[node]

Lookups == {"findChild", "findChildBinary", "findChildSSE"}

\* the slots of a Node4 or Node16 that are occupied and hold byte b
OccupiedSlotsWith(n, b) == {i \in 0 .. n.count - 1 : n.keys[i] = b}

\* the slots past the occupied ones that hold byte b
UnoccupiedSlotsWith(n, b) == {i \in DOMAIN n.keys : i >= n.count /\ n.keys[i] = b}

MinOf(S) == CHOOSE x \in S : \A y \in S : x <= y

\* the child a Node4 or Node16 stores for byte b, NULL when it stores none
StoredSmall(n, b) ==
    IF OccupiedSlotsWith(n, b) = {} THEN NULL
    ELSE n.children[MinOf(OccupiedSlotsWith(n, b))]

\* the child a Node48 stores for byte b
Stored48(n, b) == IF n.keys[b] = EMPTY_KEY THEN NULL ELSE n.children[n.keys[b]]

\* the child an inner node of any class stores for byte b
StoredChild(n, b) ==
    IF n.type \in {NODE4, NODE16} THEN StoredSmall(n, b)
    ELSE IF n.type = NODE48 THEN Stored48(n, b)
    ELSE n.children[b]

\* the first count keys are distinct and ascending by byte value
SortedByByteValue(n) ==
    \A i, j \in 0 .. n.count - 1 : i < j => n.keys[i] < n.keys[j]

\* the empty Inner4 placeholder
IsEmptyNode4(n) ==
    /\ n.type = NODE4
    /\ n.count = 0
    /\ n.prefixLen = 0
    /\ \A i \in 0 .. 3 : n.keys[i] = EMPTY_KEY /\ n.children[i] = NULL

(***************************************************************************)
(* C1: on every Inner16 with count in 0..16 and distinct ascending keys,   *)
(* and for every key byte, findChildSSE returns what findChildBinary       *)
(* returns on the same node and byte.                                      *)
(***************************************************************************)
C1_SSEAgreesWithBinary ==
    (op = "findChildSSE" /\ Cur.count \in 0 .. 16 /\ SortedByByteValue(Cur))
        => ret = findChildBinary(Cur, byte)

(***************************************************************************)
(* C2: on an Inner256, findChild(node, b) returns entry b of the children  *)
(* array for every b in 0..255, and the index it uses is within 0..255.    *)
(***************************************************************************)
C2_Node256DirectIndex ==
    (op = "findChild" /\ Cur.type = NODE256)
        => /\ idx = <<byte>>
           /\ idx[1] \in 0 .. 255
           /\ ret = Cur.children[byte]

(***************************************************************************)
(* C3: on an Inner48, findChild(node, b) reads entry b of the byte-to-slot *)
(* table (index within 0..255) and returns absent when the entry is        *)
(* EMPTY_KEY, else the child at the slot index the entry holds.            *)
(***************************************************************************)
C3_Node48TableLookup ==
    (op = "findChild" /\ Cur.type = NODE48)
        => /\ idx = <<byte>>
           /\ idx[1] \in 0 .. 255
           /\ ret = Stored48(Cur, byte)

(***************************************************************************)
(* C4: on an Inner16 with count in 0..16 whose first count keys are        *)
(* distinct and ascending by byte value, findChildBinary returns           *)
(* children[i] when keys[i] is the queried byte for some i < count, and    *)
(* absent when no occupied slot holds the byte.                            *)
(***************************************************************************)
C4_BinaryFindsStoredChild ==
    (op = "findChildBinary" /\ Cur.count \in 0 .. 16 /\ SortedByByteValue(Cur))
        => ret = StoredSmall(Cur, byte)

(***************************************************************************)
(* C5: initializeAdaptiveRadixTree returns NULL whenever an allocation it  *)
(* needs fails, be it the ART structure or the root node.                  *)
(***************************************************************************)
C5_NullOnAllocationFailure ==
    (op = "initializeAdaptiveRadixTree" /\ allocFailed) => tree = NULL

(***************************************************************************)
(* C6: every tree initializeAdaptiveRadixTree returns has size 0 and a     *)
(* non-null root that is an empty Inner4: type NODE4, count 0, prefix      *)
(* length 0, four EMPTY_KEY key slots and four null children.              *)
(***************************************************************************)
C6_ReturnedTreeHasEmptyRoot ==
    (op = "initializeAdaptiveRadixTree" /\ tree # NULL)
        => /\ heap[tree].size = 0
           /\ heap[tree].root # NULL
           /\ IsEmptyNode4(heap[heap[tree].root])

(***************************************************************************)
(* C7: byte 0 is an ordinary key byte in every node class: findChild(node, *)
(* 0) returns the child stored under byte 0 and is absent only when none   *)
(* is stored; EMPTY_KEY lies outside the slot-index range 0..47.           *)
(***************************************************************************)
C7_ByteZeroIsOrdinaryKey ==
    /\ EMPTY_KEY \notin 0 .. 47
    /\ (op = "findChild" /\ byte = 0 /\ Cur.type \in {NODE4, NODE16, NODE48, NODE256})
        => ret = StoredChild(Cur, 0)

(***************************************************************************)
(* C8: on an Inner4 with count in 0..4, findChild scans only the first     *)
(* count slots: it returns children[i] for the first i < count whose key   *)
(* is the byte and absent otherwise; on the freshly created empty root     *)
(* every byte, 255 included, yields absent.                                *)
(***************************************************************************)
C8_Node4ScansOccupiedSlots ==
    (op = "findChild" /\ Cur.type = NODE4 /\ Cur.count \in 0 .. 4)
        => /\ ret = StoredSmall(Cur, byte)
           /\ (tree # NULL /\ node = heap[tree].root) => ret = NULL

\* a lookup of a byte held only by a stale slot of an Inner4 came back absent
C8_Witness ==
    /\ op = "findChild"
    /\ Cur.type = NODE4
    /\ Cur.count \in 1 .. 3
    /\ OccupiedSlotsWith(Cur, byte) = {}
    /\ \E i \in UnoccupiedSlotsWith(Cur, byte) : Cur.children[i] # NULL
    /\ ret = NULL

(***************************************************************************)
(* C9: findChildSSE never returns a child taken from a slot at index >=    *)
(* count: on an Inner16 with count in 1..16, a returned child is the child *)
(* of an occupied slot holding the byte, and a byte that equals only keys  *)
(* of unoccupied slots yields absent.                                      *)
(***************************************************************************)
C9_SSEMaskedToOccupiedSlots ==
    (op = "findChildSSE" /\ Cur.count \in 1 .. 16)
        => /\ ret # NULL =>
                \E i \in OccupiedSlotsWith(Cur, byte) : ret = Cur.children[i]
           /\ OccupiedSlotsWith(Cur, byte) = {} => ret = NULL

\* a byte held only by a stale slot, whose child is not null, came back absent
C9_Witness ==
    /\ op = "findChildSSE"
    /\ Cur.count \in 1 .. 15
    /\ OccupiedSlotsWith(Cur, byte) = {}
    /\ \E i \in UnoccupiedSlotsWith(Cur, byte) : Cur.children[i] # NULL
    /\ ret = NULL

(***************************************************************************)
(* C10: a lookup is pure: a call of findChild (or of the Inner16 searches  *)
(* it dispatches to) leaves every object of the heap, hence the node's     *)
(* type, prefix, prefix length, keys, children and count and the tree's    *)
(* root and size, unchanged.                                               *)
(***************************************************************************)
C10_LookupIsPure ==
    [][(op = "none" /\ op' \in Lookups)
          => (heap' = heap /\ node' = node /\ tree' = tree)]_vars

\* findChild has returned a child, for a byte other than 0
C10_Witness ==
    /\ op = "findChild"
    /\ Cur.type \in {NODE4, NODE16, NODE48, NODE256}
    /\ ret # NULL
    /\ byte # 0

====
